---- MODULE Spec2Model ----
(***************************************************************************)
(* A model of the resume-optimization pipeline of resume_generator:        *)
(*   - ResumeOptimizer (optimizer.py): five stages over one accumulating   *)
(*     message list, each stage one structured completion of the provider; *)
(*   - OpenAIProvider (llm_utils/llm/providers): chat_completion wrapped   *)
(*     by the tenacity retry decorator, structured_chat_completion;        *)
(*   - ResumeParser (parser.py): PDF pages -> images -> one request.       *)
(* Network calls are the only blocking points, so every action runs the    *)
(* code from one blocking point to the next.                               *)
(***************************************************************************)
EXTENDS Integers, Sequences, FiniteSets, TLC

VARIABLES
    \* ---- ResumeOptimizer ----
    messages,     \* self.messages
    pc,           \* "idle" | "inflight": the optimizer waits for the API
    mode,         \* who runs the current stage: "none" | "direct" | "pipeline"
    step,         \* position of optimize_resume in its sequence of stage calls
    stage,        \* the stage method being executed (0: none)
    attempt,      \* attempt number of the provider call in progress
    ncalls,       \* stage-method invocations so far
    requests,     \* history: every request handed to the API, in order
    replies,      \* history: the API's answer to each request, in order
    runLog,       \* history: one record per optimize_resume call
    ops,          \* calls the caller has made so far (bounded by MaxOps)
    returned,     \* value the last finished call handed to its caller
    raised,       \* exception the last finished call raised ("none")
    output_file,  \* what the test script wrote to resume_output_path
    \* ---- OpenAIProvider.chat_completion under the retry decorator ----
    r_pc,         \* "idle" | "attempting" | "sleeping"
    r_attempt,    \* attempt_number: attempts started in the current call
    r_log,        \* what each attempt of the current call ended with
    r_waits,      \* seconds slept before each further attempt of the call
    r_outcome,    \* how the last call ended: "none" | "returned" | "raised"
    r_result,     \* the response the last call returned
    r_raised,     \* the exception the last call raised ("none")
    r_calls,      \* chat_completion calls made so far (bounded)
    \* ---- ResumeParser ----
    fs,           \* the file system: what is at each path
    p_pc,         \* "idle" | "inflight"
    p_log,        \* history: one record per parse_resume call
    p_requests,   \* history: every request the parser handed to the API
    p_replies,    \* history: the API's answer to each request
    \* ---- PromptLoader ----
    l_folders,    \* the subfolders of the prompt_templates directory
    l_files,      \* the template files there: <<subfolder, name>>
    l_requested,  \* the subfolder PromptLoader(...) was called with ("none")
    l_ctor,       \* how the constructor ended: "none" | "ok" | "ValueError"
    l_templates,  \* self._templates: name -> template object (NoTemplate)
    l_lookups,    \* history: every template_env.get_template call
    l_accesses,   \* history: every attribute access through __getattr__
    \* ---- IDLogger ----
    d_file,       \* whether the CSV file exists
    d_disk,       \* the rows of the CSV file on disk
    d_buffer,     \* rows written to self.csv_file and not yet flushed
    d_logger,     \* "none" | "ready": the IDLogger is constructed
    d_is_new,     \* self.is_new
    d_deletes,    \* history: every delete request sent to the API
    d_history,    \* history: one record per IDLogger method call
    \* ---- OpenAIAssistant ----
    a_state,      \* "none" | "ready" | "failed": the constructor's outcome
    a_assistant,  \* self._assistant
    a_thread,     \* self._thread
    a_files,      \* self._files
    a_created,    \* objects and messages created at the provider so far
    t_msgs,       \* the provider's threads: thread id -> messages, oldest first
    a_ops,        \* method calls made on the assistant
    a_last,       \* the latest method call and how it ended
    \* ---- PDFGenerator ----
    g_temp,       \* the temporary HTML files that exist
    g_outputs,    \* the PDF files written: path -> HTML they were made from
    g_calls,      \* generate_pdf calls so far
    g_last        \* the latest generate_pdf call and how it ended

optVars == <<messages, pc, mode, step, stage, attempt, ncalls, requests,
             replies, runLog, ops, returned, raised, output_file>>

retryVars == <<r_pc, r_attempt, r_log, r_waits, r_outcome, r_result, r_raised,
               r_calls>>

parserVars == <<fs, p_pc, p_log, p_requests, p_replies>>

loaderVars == <<l_folders, l_files, l_requested, l_ctor, l_templates,
                l_lookups, l_accesses>>

\* the components added to the model after the first three
idVars == <<d_file, d_disk, d_buffer, d_logger, d_is_new, d_deletes, d_history>>

assistVars ==
    <<a_state, a_assistant, a_thread, a_files, a_created, t_msgs, a_ops, a_last>>

pdfVars == <<g_temp, g_outputs, g_calls, g_last>>

restVars == <<loaderVars, idVars, assistVars, pdfVars>>

vars == <<optVars, retryVars, parserVars, restVars>>

----------------------------------------------------------------------------
\* Bounds of the model
MaxOps == 2     \* calls (optimize_resume or a stage method) on the optimizer
MaxChatCalls == 2   \* chat_completion calls on the provider
MaxParses == 2      \* parse_resume calls on the parser
MaxPages == 2       \* pages of a PDF file
WaitProbe == 8      \* attempt numbers the wait function is evaluated for
MaxAccesses == 3    \* attribute accesses on the prompt loader
MaxLogOps == 3      \* method calls on the IDLogger
MaxAssistantOps == 4  \* method calls on the OpenAIAssistant after __init__
MaxPdfCalls == 3    \* generate_pdf calls

\* Inputs
JobDescriptions == {"jdA", "jdB"}
UserPreferences == {"None"}
CurrentResume == [schema |-> "Resume", id |-> 0]

----------------------------------------------------------------------------
\* Exceptions

\* the provider errors the code names as transient
TransientErrors == {"RateLimitError", "APIError", "APIConnectionError"}

\* what the SDK call can raise: the three above, or anything else
SdkErrors == TransientErrors \cup {"Exception"}

\* try/except of chat_completion and structured_chat_completion:
\* the transient errors are re-raised as they are, all others as LLMError.
\* (The log_execution decorator around both methods is taken to log and to
\* pass results and exceptions through.)
TranslateError(e) == IF e \in TransientErrors THEN e ELSE "LLMError"

----------------------------------------------------------------------------
\* Retry decorator

StopAfterAttempt == 5

\* retry_if_exception_type((RateLimitError, APIError, APIConnectionError))
RetryIfExceptionType(e) == e \in TransientErrors

\* BaseProvider.__init__ applies the decorator to these two methods only
RetryWrapped == {"chat_completion", "achat_completion"}

\* variant: one attempt too many (> for >=)
ShouldStopMutant(n) == n > StopAfterAttempt

\* stop_after_attempt(5): stop once attempt_number >= 5
ShouldStop(n) == n >= StopAfterAttempt

\* whether the failed attempt n of `method` is followed by another attempt
RetriesAgain(method, e, n) ==
    /\ method \in RetryWrapped
    /\ RetryIfExceptionType(e)
    /\ ~ShouldStop(n)

\* the exception the caller of `method` receives when attempt n failed with e
\* and no further attempt is made: tenacity (reraise unset) raises RetryError
\* when it stops, and lets an exception it does not retry pass
FinalError(method, e, n) ==
    IF method \in RetryWrapped /\ RetryIfExceptionType(e) /\ ShouldStop(n)
    THEN "RetryError"
    ELSE e

----------------------------------------------------------------------------
\* Values

\* BaseModel.model_dump_json: the JSON text of a record, tagged by its type
ModelDumpJson(x) == <<"json", x.schema, x.id>>

\* a jinja template rendered with its arguments
Render(template, args) == <<"prompt", template, args>>

SystemMessage == [role |-> "system", content |-> Render("optimization/system", <<>>)]

UserMessage(prompt) == [role |-> "user", content |-> prompt]

\* what beta.chat.completions.parse(...).choices[0].message is for payload p
\* (every response carries a payload of its own, numbered by its request):
\* the JSON text in .content, the validated record in .parsed
ParsedMessage(p) ==
    [schema |-> "ParsedChatCompletionMessage", id |-> p.id,
     role |-> "assistant", content |-> ModelDumpJson(p), parsed |-> p]

\* variant: the dump of the whole message stored instead of its content
AssistantMessageMutant(m) == [role |-> "assistant", content |-> ModelDumpJson(m)]

\* the turn _chat_completion appends for the provider's message m
AssistantMessage(m) == [role |-> "assistant", content |-> m.content]

\* variant: the conversation restarted from the system message
AppendMessageMutant(msgs, m) == <<msgs[1], m>>

\* self.messages.append(...)
AppendMessage(msgs, m) == Append(msgs, m)

----------------------------------------------------------------------------
\* Stages

Stages == 1..5

\* variant: stage_3 asking for the schema of stage_4
StageSchemaMutant(k) ==
    CASE k = 1 -> "JobAnalysis"
      [] k = 2 -> "GapAnalysis"
      [] k = 3 -> "OptimizedResume"
      [] k = 4 -> "OptimizedResume"
      [] k = 5 -> "Resume"

\* response_format each stage method passes to _chat_completion
StageSchema(k) ==
    CASE k = 1 -> "JobAnalysis"
      [] k = 2 -> "GapAnalysis"
      [] k = 3 -> "ContentPrioritization"
      [] k = 4 -> "OptimizedResume"
      [] k = 5 -> "Resume"

\* the prompt each stage method renders
StagePrompt(k, jd, prefs, resume) ==
    CASE k = 1 -> Render("stage_1", <<jd, prefs>>)
      [] k = 2 -> Render("stage_2", <<ModelDumpJson(resume)>>)
      [] k = 3 -> Render("stage_3", <<>>)
      [] k = 4 -> Render("stage_4", <<>>)
      [] k = 5 -> Render("stage_5", <<>>)

\* variant: stage_3 called before stage_2
PipelineOrderMutant == <<1, 3, 2, 4, 5>>

\* the stage calls of optimize_resume, in program order
PipelineOrder == <<1, 2, 3, 4, 5>>

----------------------------------------------------------------------------
\* ResumeOptimizer

Method == "structured_chat_completion"

NoValue == [schema |-> "None", id |-> 0]

\* the request _chat_completion hands to llm.structured_chat_completion
Request(call, n, run, k, msgs) ==
    [call |-> call, attempt |-> n, run |-> run, stage |-> k, method |-> Method,
     messages |-> msgs, model |-> "gpt-4o", temperature |-> "0.3",
     response_format |-> StageSchema(k)]

\* ResumeOptimizer.__init__
OptInit ==
    /\ messages = <<SystemMessage>>
    /\ pc = "idle"
    /\ mode = "none"
    /\ step = 0
    /\ stage = 0
    /\ attempt = 0
    /\ ncalls = 0
    /\ requests = <<>>
    /\ replies = <<>>
    /\ runLog = <<>>
    /\ ops = 0
    /\ returned = NoValue
    /\ raised = "none"
    /\ output_file = NoValue

\* first half of _chat_completion for stage k, starting from message list
\* msgs: the user turn is appended and the list is sent
EnterStage(k, prompt, run, msgs) ==
    /\ messages' = AppendMessage(msgs, UserMessage(prompt))
    /\ requests' = Append(requests, Request(ncalls + 1, 1, run, k, messages'))
    /\ ncalls' = ncalls + 1
    /\ stage' = k
    /\ attempt' = 1
    /\ pc' = "inflight"

\* the caller calls stage_k(...) itself
CallStage(k, jd, prefs) ==
    /\ pc = "idle"
    /\ UNCHANGED <<retryVars, parserVars, restVars>>
    /\ ops < MaxOps
    /\ ops' = ops + 1
    /\ mode' = "direct"
    /\ step' = 0
    /\ returned' = NoValue
    /\ raised' = "none"
    /\ EnterStage(k, StagePrompt(k, jd, prefs, CurrentResume), 0, messages)
    /\ UNCHANGED <<replies, runLog, output_file>>

\* the caller calls optimize_resume(jd, CurrentResume, prefs): runs up to the
\* request of the first stage
OptimizeResume(jd, prefs) ==
    /\ pc = "idle"
    /\ UNCHANGED <<retryVars, parserVars, restVars>>
    /\ ops < MaxOps
    /\ ops' = ops + 1
    /\ runLog' = Append(runLog, [base |-> messages, job_description |-> jd,
                                 user_preferences |-> prefs,
                                 current_resume |-> CurrentResume,
                                 status |-> "running", result |-> NoValue])
    /\ mode' = "pipeline"
    /\ step' = 1
    /\ returned' = NoValue
    /\ raised' = "none"
    /\ EnterStage(PipelineOrder[1],
                  StagePrompt(PipelineOrder[1], jd, prefs, CurrentResume),
                  Len(runLog) + 1, messages)
    /\ UNCHANGED <<replies, output_file>>

\* the value a stage method returns for the provider's message m
StageResult(m) == m

\* (print_as_yaml between the stages only logs.)
\* The API answers the request in flight; _chat_completion appends the
\* assistant turn and returns. A direct call returns to the caller;
\* optimize_resume goes on to its next stage, or returns after the last, and
\* the test script then writes the value's model_dump_json to the output file
ApiReturns ==
    /\ pc = "inflight"
    /\ UNCHANGED <<retryVars, parserVars, restVars>>
    /\ LET req == requests[Len(requests)]
           msg == ParsedMessage([schema |-> req.response_format,
                                 id |-> Len(requests)])
           msgs1 == AppendMessage(messages, AssistantMessage(msg))
           run == Len(runLog)
       IN  /\ replies' = Append(replies, [outcome |-> "ok", message |-> msg])
           /\ IF mode = "pipeline" /\ step < Len(PipelineOrder)
              THEN /\ step' = step + 1
                   /\ EnterStage(PipelineOrder[step + 1],
                                 StagePrompt(PipelineOrder[step + 1],
                                             runLog[run].job_description,
                                             runLog[run].user_preferences,
                                             runLog[run].current_resume),
                                 run, msgs1)
                   /\ UNCHANGED <<mode, runLog, ops, returned, raised,
                                  output_file>>
              ELSE /\ messages' = msgs1
                   /\ pc' = "idle"
                   /\ mode' = "none"
                   /\ step' = 0
                   /\ stage' = 0
                   /\ attempt' = 0
                   /\ returned' = StageResult(msg)
                   /\ IF mode = "pipeline"
                      THEN /\ runLog' = [runLog EXCEPT
                                           ![run].status = "returned",
                                           ![run].result = StageResult(msg)]
                           /\ output_file' = ModelDumpJson(StageResult(msg))
                      ELSE UNCHANGED <<runLog, output_file>>
                   /\ UNCHANGED <<ncalls, requests, ops, raised>>

\* the API call of the request in flight raises e. The provider method
\* translates it; a retry-wrapped method would attempt again, any other lets
\* the exception through _chat_completion, the stage and optimize_resume
ApiRaises(e) ==
    /\ pc = "inflight"
    /\ UNCHANGED <<retryVars, parserVars, restVars>>
    /\ LET req == requests[Len(requests)]
           err == TranslateError(e)
       IN  /\ replies' = Append(replies, [outcome |-> "error", message |-> NoValue])
           /\ IF RetriesAgain(req.method, err, attempt)
              THEN /\ attempt' = attempt + 1
                   /\ requests' = Append(requests,
                                         [req EXCEPT !.attempt = attempt + 1,
                                                     !.messages = messages])
                   /\ UNCHANGED <<messages, pc, mode, step, stage, ncalls,
                                  runLog, ops, returned, raised,
                                  output_file>>
              ELSE /\ raised' = FinalError(req.method, err, attempt)
                   /\ pc' = "idle"
                   /\ mode' = "none"
                   /\ step' = 0
                   /\ stage' = 0
                   /\ attempt' = 0
                   /\ IF mode = "pipeline"
                      THEN runLog' = [runLog EXCEPT
                                        ![Len(runLog)].status = "raised"]
                      ELSE UNCHANGED runLog
                   /\ UNCHANGED <<messages, ncalls, requests, ops,
                                  returned, output_file>>

----------------------------------------------------------------------------
\* OpenAIProvider.chat_completion, wrapped by get_openai_retry_decorator()

WaitMultiplier == 1
WaitMin == 4
WaitMax == 60

RECURSIVE Pow2(_)
Pow2(n) == IF n <= 0 THEN 1 ELSE 2 * Pow2(n - 1)

Min2(a, b) == IF a < b THEN a ELSE b
Max2(a, b) == IF a > b THEN a ELSE b

\* variant: the lower clamp left out
WaitExponentialMutant(n) == Min2(WaitMultiplier * Pow2(n - 1), WaitMax)

\* wait_exponential(multiplier=1, min=4, max=60) after failed attempt n:
\* multiplier * 2^(n-1), clamped to [min, max]
WaitExponential(n) ==
    Max2(Max2(0, WaitMin), Min2(WaitMultiplier * Pow2(n - 1), WaitMax))

\* the response of the n-th attempt of the c-th call: every response is a
\* value of its own
ChatResponse(c, n) == [schema |-> "ChatCompletion", id |-> 10 * c + n]

\* OpenAIProvider.__init__ with no retry_decorator argument
RetryInit ==
    /\ r_pc = "idle"
    /\ r_attempt = 0
    /\ r_log = <<>>
    /\ r_waits = <<>>
    /\ r_outcome = "none"
    /\ r_result = NoValue
    /\ r_raised = "none"
    /\ r_calls = 0

\* the caller calls provider.chat_completion(...): the first attempt starts
ChatCompletion ==
    /\ r_pc = "idle"
    /\ UNCHANGED <<optVars, parserVars, restVars>>
    /\ r_calls < MaxChatCalls
    /\ r_calls' = r_calls + 1
    /\ r_pc' = "attempting"
    /\ r_attempt' = 1
    /\ r_log' = <<>>
    /\ r_waits' = <<>>
    /\ r_outcome' = "none"
    /\ r_result' = NoValue
    /\ r_raised' = "none"

\* the attempt in progress gets its response: the call returns it
AttemptReturns ==
    /\ r_pc = "attempting"
    /\ UNCHANGED <<optVars, parserVars, restVars>>
    /\ r_log' = Append(r_log, "ok")
    /\ r_pc' = "idle"
    /\ r_outcome' = "returned"
    /\ r_result' = ChatResponse(r_calls, r_attempt)
    /\ UNCHANGED <<r_attempt, r_waits, r_raised, r_calls>>

\* the attempt in progress raises e in the SDK: chat_completion translates
\* it, and the decorator either sleeps before another attempt or ends the call
AttemptRaises(e) ==
    /\ r_pc = "attempting"
    /\ UNCHANGED <<optVars, parserVars, restVars>>
    /\ LET err == TranslateError(e)
       IN  /\ r_log' = Append(r_log, err)
           /\ IF RetriesAgain("chat_completion", err, r_attempt)
              THEN /\ r_pc' = "sleeping"
                   /\ r_waits' = Append(r_waits, WaitExponential(r_attempt))
                   /\ UNCHANGED <<r_outcome, r_raised>>
              ELSE /\ r_pc' = "idle"
                   /\ r_outcome' = "raised"
                   /\ r_raised' = FinalError("chat_completion", err, r_attempt)
                   /\ UNCHANGED r_waits
    /\ UNCHANGED <<r_attempt, r_result, r_calls>>

\* the sleep is over: the next attempt starts
SleepEnds ==
    /\ r_pc = "sleeping"
    /\ UNCHANGED <<optVars, parserVars, restVars>>
    /\ r_pc' = "attempting"
    /\ r_attempt' = r_attempt + 1
    /\ UNCHANGED <<r_log, r_waits, r_outcome, r_result, r_raised, r_calls>>

----------------------------------------------------------------------------
\* ResumeParser

Paths == {"a.pdf", "b.pdf"}
PageSet == {"pgA", "pgB"}
Dpi == 300

\* the PDF documents: 1..MaxPages pages each
Docs == UNION {[1..n -> PageSet] : n \in 1..MaxPages}

NoFile == [exists |-> FALSE, pages |-> <<>>]

Files == {NoFile} \cup {[exists |-> TRUE, pages |-> d] : d \in Docs}

\* variant: the existence check left out
PathExistsMutant(f) == TRUE

\* Path(pdf_path).exists()
PathExists(f) == f.exists

\* page.get_pixmap(matrix) and Image.frombytes: the picture of a page
RenderPage(page, dpi) == <<"image", page, dpi>>

\* variant: the pages taken last to first
PdfToImagesMutant(f, dpi) ==
    [i \in 1..Len(f.pages) |-> RenderPage(f.pages[Len(f.pages) + 1 - i], dpi)]

\* the loop of pdf_to_images: one image per page, in page order
PdfToImages(f, dpi) == [i \in 1..Len(f.pages) |-> RenderPage(f.pages[i], dpi)]

\* image_to_base64: the JPEG bytes as a data URL
ImageToBase64(image) == <<"data:image/jpeg;base64", image>>

\* the messages _llm_parser sends for the encoded images
ParserMessages(base64_images) ==
    <<[role |-> "system", content |-> Render("extraction/system", <<>>)],
      [role |-> "user",
       content |-> <<[type |-> "text",
                      payload |-> Render("extraction/user", <<>>)]>>
                   \o [i \in 1..Len(base64_images) |->
                         [type |-> "image_url",
                          payload |-> base64_images[i]]]]>>

ParserInit ==
    /\ p_pc = "idle"
    /\ p_log = <<>>
    /\ p_requests = <<>>
    /\ p_replies = <<>>

\* parse_resume(path) up to its first blocking point: pdf_to_images raises
\* FileNotFoundError for a missing path, otherwise the pages are rendered,
\* encoded and sent in one request
ParseResume(path) ==
    /\ p_pc = "idle"
    /\ UNCHANGED <<optVars, retryVars, restVars>>
    /\ Len(p_log) < MaxParses
    /\ IF ~PathExists(fs[path])
       THEN /\ p_log' = Append(p_log, [path |-> path, status |-> "raised",
                                       error |-> "FileNotFoundError",
                                       result |-> NoValue])
            /\ UNCHANGED <<fs, p_pc, p_requests, p_replies>>
       ELSE LET images == PdfToImages(fs[path], Dpi)
                base64_images == [i \in 1..Len(images) |->
                                    ImageToBase64(images[i])]
            IN  /\ p_log' = Append(p_log, [path |-> path,
                                           status |-> "running",
                                           error |-> "none",
                                           result |-> NoValue])
                /\ p_requests' =
                      Append(p_requests,
                             [parse |-> Len(p_log) + 1,
                              method |-> "structured_chat_completion",
                              messages |-> ParserMessages(base64_images),
                              model |-> "gpt-4o-mini",
                              response_format |-> "Resume"])
                /\ p_pc' = "inflight"
                /\ UNCHANGED <<fs, p_replies>>

\* the API answers: _llm_parser returns response.parsed
ParserApiReturns ==
    /\ p_pc = "inflight"
    /\ UNCHANGED <<optVars, retryVars, restVars>>
    /\ LET msg == ParsedMessage([schema |-> "Resume",
                                 id |-> Len(p_requests)])
       IN  /\ p_replies' = Append(p_replies,
                                  [outcome |-> "ok", message |-> msg])
           /\ p_log' = [p_log EXCEPT ![Len(p_log)].status = "returned",
                                     ![Len(p_log)].result = msg.parsed]
    /\ p_pc' = "idle"
    /\ UNCHANGED <<fs, p_requests>>

\* the API call raises e: structured_chat_completion translates it and the
\* exception passes through _llm_parser and parse_resume
ParserApiRaises(e) ==
    /\ p_pc = "inflight"
    /\ UNCHANGED <<optVars, retryVars, restVars>>
    /\ p_replies' = Append(p_replies, [outcome |-> "error", message |-> NoValue])
    /\ p_log' = [p_log EXCEPT ![Len(p_log)].status = "raised",
                              ![Len(p_log)].error =
                                  FinalError("structured_chat_completion",
                                             TranslateError(e), 1)]
    /\ p_pc' = "idle"
    /\ UNCHANGED <<fs, p_requests>>

----------------------------------------------------------------------------
\* PromptLoader

SubfolderNames == {"optimization", "extraction", "other"}
TemplateNames == {"system", "stage_1"}

NoTemplate == [file |-> <<"none", "none">>, id |-> 0]

\* variant: the folder written into the file name instead of self.subfolder
TemplateFileMutant(subfolder, name) == <<"extraction", name>>

\* f"{self.subfolder}/{template_name}.jinja"
TemplateFile(subfolder, name) == <<subfolder, name>>

\* variant: the loaded template returned without being kept
CacheStoreMutant(cache, name, t) == cache

\* self._templates[template_name] = ...
CacheStore(cache, name, t) == [cache EXCEPT ![name] = t]

\* before any PromptLoader is constructed; the prompt_templates directory
\* holds any subfolders and any template files in them
LoaderInit ==
    /\ l_requested = "none"
    /\ l_ctor = "none"
    /\ l_templates = [n \in TemplateNames |-> NoTemplate]
    /\ l_lookups = <<>>
    /\ l_accesses = <<>>

LoaderFilesInit ==
    /\ l_folders \in SUBSET SubfolderNames
    /\ l_files \in SUBSET (l_folders \X TemplateNames)

\* PromptLoader(subfolder)
NewPromptLoader(subfolder) ==
    /\ l_ctor = "none"
    /\ UNCHANGED <<optVars, retryVars, parserVars, idVars, assistVars, pdfVars>>
    /\ l_requested' = subfolder
    /\ l_ctor' = IF subfolder \notin l_folders THEN "ValueError" ELSE "ok"
    /\ UNCHANGED <<l_folders, l_files, l_templates, l_lookups, l_accesses>>

\* loader.<name>, through __getattr__
GetAttr(name) ==
    /\ l_ctor = "ok"
    /\ UNCHANGED <<optVars, retryVars, parserVars, idVars, assistVars, pdfVars>>
    /\ Len(l_accesses) < MaxAccesses
    /\ IF l_templates[name] # NoTemplate
       THEN /\ l_accesses' = Append(l_accesses,
                                    [name |-> name, looked |-> FALSE,
                                     error |-> "none",
                                     result |-> l_templates[name]])
            /\ UNCHANGED <<l_templates, l_lookups>>
       ELSE LET file == TemplateFile(l_requested, name)
                found == file \in l_files
                t == [file |-> file, id |-> Len(l_lookups) + 1]
            IN  /\ l_lookups' = Append(l_lookups,
                                       [file |-> file, found |-> found])
                /\ IF found
                   THEN /\ l_templates' = CacheStore(l_templates, name, t)
                        /\ l_accesses' =
                              Append(l_accesses,
                                     [name |-> name, looked |-> TRUE,
                                      error |-> "none",
                                      result |-> l_templates'[name]])
                   ELSE /\ l_accesses' =
                              Append(l_accesses,
                                     [name |-> name, looked |-> TRUE,
                                      error |-> "AttributeError",
                                      result |-> NoTemplate])
                        /\ UNCHANGED l_templates
    /\ UNCHANGED <<l_folders, l_files, l_requested, l_ctor>>

----------------------------------------------------------------------------
\* IDLogger

\* the Assistants-API objects: object.__class__.__name__ and object.id
Objects ==
    {[type |-> "Assistant", id |-> 1], [type |-> "Thread", id |-> 2],
     [type |-> "FileObject", id |-> 3]}

HeaderRow == <<"datetime", "type", "id">>

\* the row log_id writes for an object (the time of day left abstract)
ObjectRow(o) == <<"now", o.type, o.id>>

\* what an earlier process can have left at the path: an empty file, the
\* header, or the header and one row
ExistingLogs ==
    {<<>>, <<HeaderRow>>} \cup {<<HeaderRow, ObjectRow(o)>> : o \in Objects}

\* dict(zip(header, row))
DictZip(header, row) ==
    [k \in {header[i] : i \in 1..Len(header)} |->
        row[CHOOSE i \in 1..Len(header) : header[i] = k]]

\* retrieve_all on the file content: next(csv_reader) raises StopIteration
\* on a file with no line, otherwise one dict per line after the first
ReadAll(disk) ==
    IF disk = <<>>
    THEN [error |-> "StopIteration", rows |-> <<>>]
    ELSE [error |-> "none",
          rows |-> [i \in 1..(Len(disk) - 1) |-> DictZip(disk[1], disk[i + 1])]]

\* variant: the rows left in the buffer
FlushMutant(disk, buffer) == disk

\* self.csv_file.flush(): the buffered rows reach the file
Flush(disk, buffer) == disk \o buffer

\* log_id(o) on a logger with the given is_new, file content and buffer:
\* the exception raised ("none") and the file content and buffer afterwards
LogIdEffect(is_new, disk, buffer, o) ==
    LET existing == ReadAll(disk)
        known == {existing.rows[i]["id"] : i \in 1..Len(existing.rows)}
    IN  IF ~is_new /\ existing.error # "none"
        THEN [error |-> existing.error, wrote |-> FALSE,
              disk |-> disk, buffer |-> buffer]
        ELSE IF ~is_new /\ o.id \in known
        THEN [error |-> "none", wrote |-> FALSE,
              disk |-> disk, buffer |-> buffer]
        ELSE [error |-> "none", wrote |-> TRUE,
              disk |-> Flush(disk, Append(buffer, ObjectRow(o))),
              buffer |-> <<>>]

\* the delete request delete_all sends for a row (none for another type)
DeleteRequest(row) ==
    IF row["type"] \in {"Thread", "FileObject", "Assistant"}
    THEN <<[kind |-> row["type"], id |-> row["id"]]>>
    ELSE <<>>

RECURSIVE DeleteRequests(_)
DeleteRequests(rows) ==
    IF rows = <<>> THEN <<>>
    ELSE DeleteRequest(Head(rows)) \o DeleteRequests(Tail(rows))

\* the data rows written through the logger or present before it: the file
\* and the buffer without the header line
RECURSIVE DataRows(_)
DataRows(lines) ==
    IF lines = <<>> THEN <<>>
    ELSE IF Head(lines) = HeaderRow THEN DataRows(Tail(lines))
    ELSE <<Head(lines)>> \o DataRows(Tail(lines))

\* before the IDLogger is constructed
IdInit ==
    /\ d_buffer = <<>>
    /\ d_logger = "none"
    /\ d_is_new = FALSE
    /\ d_deletes = <<>>
    /\ d_history = <<>>

\* IDLogger(csv_file_path): a missing file is created and the header written
\* to it (not flushed); an existing file is opened for appending
IdLoggerOpen(file, disk) ==
    IF file = "absent"
    THEN [disk |-> <<>>, buffer |-> <<HeaderRow>>, is_new |-> TRUE]
    ELSE [disk |-> disk, buffer |-> <<>>, is_new |-> FALSE]

NewIDLogger ==
    /\ d_logger = "none"
    /\ UNCHANGED <<optVars, retryVars, parserVars, loaderVars, assistVars,
                   pdfVars>>
    /\ LET l == IdLoggerOpen(d_file, d_disk)
       IN  /\ d_disk' = l.disk
           /\ d_buffer' = l.buffer
           /\ d_is_new' = l.is_new
    /\ d_file' = "present"
    /\ d_logger' = "ready"
    /\ UNCHANGED <<d_deletes, d_history>>

\* the record of a log_id call with effect e on the lines before it
LogIdRecord(e, lines) ==
    [op |-> "log_id", error |-> e.error, before |-> DataRows(lines),
     result |-> <<>>, deletes |-> <<>>, after |-> e.disk]

\* logger.log_id(o)
LogId(o) ==
    /\ d_logger = "ready"
    /\ UNCHANGED <<optVars, retryVars, parserVars, loaderVars, assistVars,
                   pdfVars>>
    /\ Len(d_history) < MaxLogOps
    /\ LET e == LogIdEffect(d_is_new, d_disk, d_buffer, o)
       IN  /\ d_disk' = e.disk
           /\ d_buffer' = e.buffer
           /\ d_history' =
                 Append(d_history, LogIdRecord(e, d_disk \o d_buffer))
    /\ UNCHANGED <<d_file, d_logger, d_is_new, d_deletes>>

\* logger.retrieve_all()
RetrieveAll ==
    /\ d_logger = "ready"
    /\ UNCHANGED <<optVars, retryVars, parserVars, loaderVars, assistVars,
                   pdfVars>>
    /\ Len(d_history) < MaxLogOps
    /\ LET r == ReadAll(d_disk)
       IN  d_history' = Append(d_history,
                               [op |-> "retrieve_all", error |-> r.error,
                                before |-> DataRows(d_disk \o d_buffer),
                                result |-> r.rows, deletes |-> <<>>,
                                after |-> d_disk])
    /\ UNCHANGED <<d_file, d_disk, d_buffer, d_logger, d_is_new, d_deletes>>

\* logger.delete_all(), the delete requests taken to succeed: nothing at all
\* when is_new; otherwise one request per row read, then the file is
\* rewritten with the header alone and reopened for appending
DeleteAll ==
    /\ d_logger = "ready"
    /\ UNCHANGED <<optVars, retryVars, parserVars, loaderVars, assistVars,
                   pdfVars>>
    /\ Len(d_history) < MaxLogOps
    /\ LET r == ReadAll(d_disk)
           record(err, reqs, after) ==
               [op |-> "delete_all", error |-> err,
                before |-> DataRows(d_disk \o d_buffer),
                result |-> <<>>, deletes |-> reqs, after |-> after]
       IN  IF d_is_new
           THEN /\ d_history' = Append(d_history, record("none", <<>>, d_disk))
                /\ UNCHANGED <<d_disk, d_buffer, d_deletes>>
           ELSE IF r.error # "none"
           THEN /\ d_history' = Append(d_history, record(r.error, <<>>, d_disk))
                /\ UNCHANGED <<d_disk, d_buffer, d_deletes>>
           ELSE /\ d_deletes' = d_deletes \o DeleteRequests(r.rows)
                /\ d_disk' = <<HeaderRow>>
                /\ d_buffer' = <<>>
                /\ d_history' = Append(d_history,
                                       record("none", DeleteRequests(r.rows),
                                              <<HeaderRow>>))
    /\ UNCHANGED <<d_file, d_logger, d_is_new>>

----------------------------------------------------------------------------
\* OpenAIAssistant

NoObject == [type |-> "None", id |-> 0]

\* the assistant and the thread that exist at the provider beforehand
StoredAssistantId == 1
StoredThreadId == 2

\* ids the provider gives to what it creates
FirstNewId == 10
NewId(created) == FirstNewId + created

\* the optional assistant_id and thread_id arguments (0 for None)
AssistantIdArgs == {0, StoredAssistantId}
ThreadIdArgs == {0, StoredThreadId}

\* what the latest method call is known by
CallRecord(op, error, o, disk, list, last) ==
    [op |-> op, error |-> error, object |-> o, disk |-> disk,
     list |-> list, last |-> last]

NoMessage == [role |-> "none", n |-> 0]

Reverse(seq) == [i \in 1..Len(seq) |-> seq[Len(seq) + 1 - i]]

\* client.beta.threads.messages.list(thread_id).data: the provider lists a
\* thread's messages newest first
MessagesList(threads, thread_id) == Reverse(threads[thread_id])

\* get_all_messages: messages.data[::-1]
GetAllMessagesResult(threads, thread_id) ==
    Reverse(MessagesList(threads, thread_id))

AssistInit ==
    /\ a_state = "none"
    /\ a_assistant = NoObject
    /\ a_thread = NoObject
    /\ a_files = <<>>
    /\ a_created = 0
    /\ t_msgs = (StoredThreadId :> <<[role |-> "user", n |-> 0]>>)
    /\ a_ops = 0
    /\ a_last = CallRecord("none", "none", NoObject, <<>>, <<>>, NoMessage)

\* self.log_id(o) inside a method of the assistant
AssistantLogs(is_new, disk, buffer, o) ==
    LET e == LogIdEffect(is_new, disk, buffer, o)
    IN  /\ d_disk' = e.disk
        /\ d_buffer' = e.buffer
        /\ d_history' = Append(d_history, LogIdRecord(e, disk \o buffer))

\* OpenAIAssistant(assistant_id=...): the IDLogger is opened, the assistant
\* is loaded or created (the request succeeds or raises) and its id logged
NewAssistant(assistant_id, ok) ==
    /\ a_state = "none"
    /\ d_logger = "none"
    /\ UNCHANGED <<optVars, retryVars, parserVars, loaderVars, pdfVars>>
    /\ d_file' = "present"
    /\ d_logger' = "ready"
    /\ LET l == IdLoggerOpen(d_file, d_disk)
           o == [type |-> "Assistant",
                 id |-> IF assistant_id # 0 THEN assistant_id
                        ELSE NewId(a_created + 1)]
           e == LogIdEffect(l.is_new, l.disk, l.buffer, o)
       IN  /\ d_is_new' = l.is_new
           /\ IF ~ok
              THEN /\ d_disk' = l.disk
                   /\ d_buffer' = l.buffer
                   /\ a_state' = "failed"
                   /\ a_last' = CallRecord("__init__", "APIError", NoObject,
                                           l.disk, <<>>, NoMessage)
                   /\ UNCHANGED <<d_history, a_assistant, a_created>>
              ELSE /\ AssistantLogs(l.is_new, l.disk, l.buffer, o)
                   /\ a_created' = IF assistant_id # 0 THEN a_created
                                   ELSE a_created + 1
                   /\ a_assistant' = o
                   /\ a_state' = IF e.error = "none" THEN "ready" ELSE "failed"
                   /\ a_last' = CallRecord("__init__", e.error, o, e.disk,
                                           <<>>, NoMessage)
    /\ UNCHANGED <<d_deletes, a_thread, a_files, t_msgs, a_ops>>

\* a method call on the constructed assistant
AssistantCall ==
    /\ a_state = "ready"
    /\ a_ops < MaxAssistantOps
    /\ a_ops' = a_ops + 1
    /\ UNCHANGED <<optVars, retryVars, parserVars, loaderVars, pdfVars>>
    /\ UNCHANGED <<d_file, d_logger, d_is_new, d_deletes, a_state, a_assistant>>

\* assistant.upload_file(path)
UploadFile(ok) ==
    /\ AssistantCall
    /\ LET o == [type |-> "FileObject", id |-> NewId(a_created + 1)]
           e == LogIdEffect(d_is_new, d_disk, d_buffer, o)
       IN  IF ~ok
           THEN /\ a_last' = CallRecord("upload_file", "APIError", NoObject,
                                        d_disk, <<>>, NoMessage)
                /\ UNCHANGED <<d_disk, d_buffer, d_history, a_files, a_created>>
           ELSE /\ a_created' = a_created + 1
                /\ a_files' = Append(a_files, o)
                /\ AssistantLogs(d_is_new, d_disk, d_buffer, o)
                /\ a_last' = CallRecord("upload_file", e.error, o, e.disk,
                                        <<>>, NoMessage)
    /\ UNCHANGED <<a_thread, t_msgs>>

\* assistant.create_or_load_thread(thread_id)
CreateOrLoadThread(thread_id, ok) ==
    /\ AssistantCall
    /\ LET o == [type |-> "Thread",
                 id |-> IF thread_id # 0 THEN thread_id
                        ELSE NewId(a_created + 1)]
           e == LogIdEffect(d_is_new, d_disk, d_buffer, o)
       IN  IF ~ok
           THEN /\ a_last' = CallRecord("create_or_load_thread", "APIError",
                                        NoObject, d_disk, <<>>, NoMessage)
                /\ UNCHANGED <<d_disk, d_buffer, d_history, a_thread,
                               a_created, t_msgs>>
           ELSE /\ a_created' = IF thread_id # 0 THEN a_created
                                ELSE a_created + 1
                /\ t_msgs' = IF thread_id # 0 THEN t_msgs
                             ELSE t_msgs @@ (o.id :> <<>>)
                /\ a_thread' = o
                /\ AssistantLogs(d_is_new, d_disk, d_buffer, o)
                /\ a_last' = CallRecord("create_or_load_thread", e.error, o,
                                        e.disk, <<>>, NoMessage)
    /\ UNCHANGED a_files

\* assistant.add_message(message, role): without a thread self._thread.id
\* raises AttributeError
AddMessage(role) ==
    /\ AssistantCall
    /\ IF a_thread = NoObject
       THEN /\ a_last' = CallRecord("add_message", "AttributeError", NoObject,
                                    d_disk, <<>>, NoMessage)
            /\ UNCHANGED <<t_msgs, a_created>>
       ELSE /\ a_created' = a_created + 1
            /\ t_msgs' = [t_msgs EXCEPT ![a_thread.id] =
                             Append(@, [role |-> role, n |-> a_created + 1])]
            /\ a_last' = CallRecord("add_message", "none", a_thread, d_disk,
                                    <<>>, NoMessage)
    /\ UNCHANGED <<d_disk, d_buffer, d_history, a_thread, a_files>>

\* assistant.get_all_messages()
GetAllMessages ==
    /\ AssistantCall
    /\ a_last' =
          IF a_thread = NoObject
          THEN CallRecord("get_all_messages", "AttributeError", NoObject,
                          d_disk, <<>>, NoMessage)
          ELSE CallRecord("get_all_messages", "none", a_thread, d_disk,
                          GetAllMessagesResult(t_msgs, a_thread.id), NoMessage)
    /\ UNCHANGED <<d_disk, d_buffer, d_history, a_thread, a_files, a_created,
                   t_msgs>>

\* assistant.run_thread_with_polling(): a completed run leaves the
\* assistant's reply in the thread; then get_all_messages and messages[-1],
\* an IndexError on an empty list
RunThreadWithPolling(completed) ==
    /\ AssistantCall
    /\ IF a_thread = NoObject
       THEN /\ a_last' = CallRecord("run_thread_with_polling",
                                    "AttributeError", NoObject, d_disk, <<>>,
                                    NoMessage)
            /\ UNCHANGED <<t_msgs, a_created>>
       ELSE /\ a_created' = IF completed THEN a_created + 1 ELSE a_created
            /\ t_msgs' =
                  IF completed
                  THEN [t_msgs EXCEPT ![a_thread.id] =
                           Append(@, [role |-> "assistant",
                                      n |-> a_created + 1])]
                  ELSE t_msgs
            /\ LET all == GetAllMessagesResult(t_msgs', a_thread.id)
               IN  a_last' =
                      IF all = <<>>
                      THEN CallRecord("run_thread_with_polling", "IndexError",
                                      a_thread, d_disk, all, NoMessage)
                      ELSE CallRecord("run_thread_with_polling", "none",
                                      a_thread, d_disk, all, all[Len(all)])
    /\ UNCHANGED <<d_disk, d_buffer, d_history, a_thread, a_files>>

----------------------------------------------------------------------------
\* PDFGenerator

\* templates in the template directories, and one that is in none
PdfTemplates == {"resume.html"}
TemplateArgs == PdfTemplates \cup {"missing.html"}

\* the variables rendered into the template: plain text, or text holding a
\* lone surrogate, which str.encode('utf-8') rejects
VariablesArgs == {"text", "surrogate"}

\* the optional output_path argument
NoPath == "None"
OutputPathArgs == {NoPath, "out.pdf"}

\* template.render(**variables)
RenderHtml(template_name, variables) == <<template_name, variables>>

\* html_content.encode('utf-8') succeeds
Utf8Encodable(html) == html[2] # "surrogate"

\* the name NamedTemporaryFile(suffix='.html') gives in the n-th call
TempHtmlPath(n) == <<"tmp", n, ".html">>

\* tempfile.mktemp(suffix='.pdf') in the n-th call
MkTemp(n) == <<"tmp", n, ".pdf">>

\* os.unlink(path)
Unlink(files, path) == files \ {path}

PdfRecord(outcome, error, temp, path) ==
    [outcome |-> outcome, error |-> error, temp |-> temp, path |-> path]

PdfInit ==
    /\ g_temp = {}
    /\ g_outputs = <<>>
    /\ g_calls = 0
    /\ g_last = PdfRecord("none", "none", <<>>, NoPath)

\* generator.generate_pdf(template_name, variables, output_path): the
\* template is looked up and rendered; the temporary file is created and the
\* encoded HTML written to it (written: the write went through); then, under
\* try/finally, pdfkit converts the file (converted: wkhtmltopdf succeeded)
\* and the temporary file is unlinked
GeneratePdf(template_name, variables, output_path, written, converted) ==
    /\ g_calls < MaxPdfCalls
    /\ UNCHANGED <<optVars, retryVars, parserVars, loaderVars, idVars,
                   assistVars>>
    /\ g_calls' = g_calls + 1
    /\ LET html == RenderHtml(template_name, variables)
           temp == TempHtmlPath(g_calls + 1)
           out == IF output_path = NoPath THEN MkTemp(g_calls + 1)
                  ELSE output_path
       IN  IF template_name \notin PdfTemplates
           THEN /\ g_last' = PdfRecord("raised", "TemplateNotFound", <<>>,
                                       NoPath)
                /\ UNCHANGED <<g_temp, g_outputs>>
           ELSE IF ~Utf8Encodable(html) \/ ~written
           THEN /\ g_temp' = g_temp \cup {temp}
                /\ g_last' = PdfRecord("raised",
                                       IF ~Utf8Encodable(html)
                                       THEN "UnicodeEncodeError"
                                       ELSE "OSError",
                                       temp, NoPath)
                /\ UNCHANGED g_outputs
           ELSE IF ~converted
           THEN /\ g_temp' = Unlink(g_temp \cup {temp}, temp)
                /\ g_last' = PdfRecord("raised", "OSError", temp, NoPath)
                /\ UNCHANGED g_outputs
           ELSE /\ g_temp' = Unlink(g_temp \cup {temp}, temp)
                /\ g_outputs' = Append(g_outputs, [path |-> out, html |-> html])
                /\ g_last' = PdfRecord("returned", "none", temp, out)

----------------------------------------------------------------------------
\* Specifications

\* the optimizer and its caller
\* the components a specification does not move stay as constructed
LoaderIdle == LoaderInit /\ l_folders = {} /\ l_files = {}

IdIdle == IdInit /\ d_file = "absent" /\ d_disk = <<>>

RestIdle == LoaderIdle /\ IdIdle /\ AssistInit /\ PdfInit

Init ==
    /\ OptInit /\ RetryInit /\ ParserInit /\ fs = [p \in Paths |-> NoFile]
    /\ RestIdle

Next ==
    \/ \E k \in Stages, jd \in JobDescriptions, prefs \in UserPreferences :
          CallStage(k, jd, prefs)
    \/ \E jd \in JobDescriptions, prefs \in UserPreferences :
          OptimizeResume(jd, prefs)
    \/ ApiReturns
    \/ \E e \in SdkErrors : ApiRaises(e)

Spec == Init /\ [][Next]_vars

\* the provider's chat_completion and its caller
RetryNext ==
    \/ ChatCompletion
    \/ AttemptReturns
    \/ \E e \in SdkErrors : AttemptRaises(e)
    \/ SleepEnds

RetrySpec == Init /\ [][RetryNext]_vars

\* the parser and its caller, over any file system
ParserSpecInit ==
    /\ OptInit /\ RetryInit /\ ParserInit /\ fs \in [Paths -> Files]
    /\ RestIdle

ParserNext ==
    \/ \E path \in Paths : ParseResume(path)
    \/ ParserApiReturns
    \/ \E e \in SdkErrors : ParserApiRaises(e)

ParserSpec == ParserSpecInit /\ [][ParserNext]_vars

\* the prompt loader and its caller, over any templates directory
LoaderSpecInit ==
    /\ OptInit /\ RetryInit /\ ParserInit /\ fs = [p \in Paths |-> NoFile]
    /\ LoaderInit /\ LoaderFilesInit
    /\ IdIdle /\ AssistInit /\ PdfInit

LoaderNext ==
    \/ \E subfolder \in SubfolderNames : NewPromptLoader(subfolder)
    \/ \E name \in TemplateNames : GetAttr(name)

LoaderSpec == LoaderSpecInit /\ [][LoaderNext]_vars

\* the log file before the logger: absent, or left by an earlier process
IdFileInit ==
    \/ d_file = "absent" /\ d_disk = <<>>
    \/ d_file = "present" /\ d_disk \in ExistingLogs

\* the IDLogger and its caller
IdLogSpecInit ==
    /\ OptInit /\ RetryInit /\ ParserInit /\ fs = [p \in Paths |-> NoFile]
    /\ LoaderIdle
    /\ IdInit /\ IdFileInit
    /\ AssistInit /\ PdfInit

IdLogNext ==
    \/ NewIDLogger
    \/ \E o \in Objects : LogId(o)
    \/ RetrieveAll
    \/ DeleteAll

IdLogSpec == IdLogSpecInit /\ [][IdLogNext]_vars

\* the OpenAIAssistant and its caller
AssistantNext ==
    \/ \E assistant_id \in AssistantIdArgs, ok \in BOOLEAN :
          NewAssistant(assistant_id, ok)
    \/ \E ok \in BOOLEAN : UploadFile(ok)
    \/ \E thread_id \in ThreadIdArgs, ok \in BOOLEAN :
          CreateOrLoadThread(thread_id, ok)
    \/ \E role \in {"user", "assistant"} : AddMessage(role)
    \/ GetAllMessages
    \/ \E completed \in BOOLEAN : RunThreadWithPolling(completed)

AssistantSpec == IdLogSpecInit /\ [][AssistantNext]_vars

\* the PDFGenerator and its caller
PdfNext ==
    \E template_name \in TemplateArgs, variables \in VariablesArgs,
       output_path \in OutputPathArgs, written \in BOOLEAN,
       converted \in BOOLEAN :
          GeneratePdf(template_name, variables, output_path, written, converted)

PdfSpec == Init /\ [][PdfNext]_vars

----------------------------------------------------------------------------
\* Claims about ResumeOptimizer (specification Spec)

IsPrefix(s, t) == Len(s) <= Len(t) /\ SubSeq(t, 1, Len(s)) = s

\* indices in `requests` of the requests of optimize_resume call r
RunRequestIdx(r) == {i \in 1..Len(requests) : requests[i].run = r}

\* the stages of the requests of optimize_resume call r, in issue order
RunStages(r) ==
    LET F[i \in 0..Len(requests)] ==
            IF i = 0 THEN <<>>
            ELSE IF requests[i].run = r THEN Append(F[i - 1], requests[i].stage)
                 ELSE F[i - 1]
    IN  F[Len(requests)]

\* C1: a run of optimize_resume issues its calls in the order stage 1, 2, 3,
\* 4, 5, a run that returned has issued exactly these five, and a call is
\* issued only when the call before it has returned (its reply is there and
\* is a success)
C1_FiveCallsInOrder ==
    /\ Len(requests) <= Len(replies) + 1
    /\ \A r \in 1..Len(runLog) :
          /\ IsPrefix(RunStages(r), <<1, 2, 3, 4, 5>>)
          /\ runLog[r].status = "returned" => RunStages(r) = <<1, 2, 3, 4, 5>>
          /\ \A i \in RunRequestIdx(r) :
                requests[i].stage > 1 =>
                   /\ i - 1 \in RunRequestIdx(r)
                   /\ i - 1 <= Len(replies)
                   /\ replies[i - 1].outcome = "ok"

\* a run of optimize_resume has returned, with its five requests
C1_Witness ==
    \E r \in 1..Len(runLog) :
       runLog[r].status = "returned" /\ Cardinality(RunRequestIdx(r)) = 5

\* C2: every step leaves the old value of messages as a prefix of the new
\* one, and the system message stays first
C2_AppendOnly ==
    [][IsPrefix(messages, messages') /\ messages'[1] = SystemMessage]_vars

\* a stage raised, a later stage succeeded, stages were called directly
C2_Witness ==
    /\ \E i, j \in 1..Len(replies) :
          i < j /\ replies[i].outcome = "error" /\ replies[j].outcome = "ok"
    /\ \E i \in 1..Len(requests) : requests[i].run = 0 /\ requests[i].stage = 4
    /\ Len(messages) >= 4

\* the turns of run r up to the request of stage k: for each stage j < k its
\* user prompt and the assistant content its call returned, then the user
\* prompt of stage k
RunTurns(r, k) ==
    LET prompt(j) == StagePrompt(j, runLog[r].job_description,
                                 runLog[r].user_preferences,
                                 runLog[r].current_resume)
        reply(j) == replies[CHOOSE i \in RunRequestIdx(r) :
                              requests[i].stage = j]
        F[j \in 0..k] ==
            IF j = 0 THEN <<>>
            ELSE F[j - 1] \o
                 (IF j < k
                  THEN <<[role |-> "user", content |-> prompt(j)],
                         [role |-> "assistant",
                          content |-> reply(j).message.content]>>
                  ELSE <<[role |-> "user", content |-> prompt(j)]>>)
    IN  F[k]

\* C3 as stated: the request of stage k (2 <= k <= 5) of optimize_resume is
\* the system prompt, then the turns of the stages before k, then the user
\* prompt of stage k, and nothing else
C3_RequestIsSystemThenTurns ==
    \A i \in 1..Len(requests) :
       requests[i].run > 0 /\ requests[i].stage >= 2 =>
          requests[i].messages =
             <<SystemMessage>> \o RunTurns(requests[i].run, requests[i].stage)

\* C3 amended: the request of stage k (2 <= k <= 5) of optimize_resume is the
\* message list the optimizer held when optimize_resume was called (which
\* starts with the system prompt, and is the system prompt alone when this is
\* the first call on the optimizer), then the turns of the stages before k,
\* then the user prompt of stage k
C3_RequestIsBaseThenTurns ==
    \A i \in 1..Len(requests) :
       requests[i].run > 0 /\ requests[i].stage >= 2 =>
          LET r == requests[i].run
          IN  /\ requests[i].messages =
                    runLog[r].base \o RunTurns(r, requests[i].stage)
              /\ runLog[r].base[1] = SystemMessage
              /\ requests[1].run = r => runLog[r].base = <<SystemMessage>>

\* the last stage of a second optimize_resume has been requested
C3_Witness ==
    \E i \in 1..Len(requests) :
       /\ requests[i].run = 2
       /\ requests[i].stage = 5
       /\ Len(requests[i].messages) = 20

\* C4: a stage call that failed with a transient provider error was
\* attempted StopAfterAttempt times before the stage failed
C4_StageCallRetried ==
    (pc = "idle" /\ raised \in TransientErrors \cup {"RetryError"}) =>
       Cardinality({i \in 1..Len(requests) : requests[i].call = ncalls})
          = StopAfterAttempt

\* C7: a run that returned handed out the Resume parsed from the stage-5
\* response, and the output file holds the JSON of such a Resume
C7_ReturnsParsedResume ==
    /\ \A r \in 1..Len(runLog) :
          runLog[r].status = "returned" =>
             \E i \in RunRequestIdx(r) :
                /\ requests[i].stage = 5
                /\ runLog[r].result = replies[i].message.parsed
                /\ runLog[r].result.schema = "Resume"
    /\ output_file # NoValue =>
          \E r \in 1..Len(runLog) : \E i \in RunRequestIdx(r) :
             /\ runLog[r].status = "returned"
             /\ requests[i].stage = 5
             /\ output_file = ModelDumpJson(replies[i].message.parsed)

\* the schema each stage method declares
DeclaredSchema ==
    <<"JobAnalysis", "GapAnalysis", "ContentPrioritization",
      "OptimizedResume", "Resume">>

\* C8: every stage-method invocation has exactly one request, a structured
\* completion with the stage's own schema
C8_OneCallOwnSchema ==
    \A c \in 1..ncalls :
       LET idx == {i \in 1..Len(requests) : requests[i].call = c}
       IN  /\ Cardinality(idx) = 1
           /\ \A i \in idx :
                 /\ requests[i].method = "structured_chat_completion"
                 /\ requests[i].response_format
                       = DeclaredSchema[requests[i].stage]

\* a whole run has returned after a stage was called directly and returned
C8_Witness ==
    /\ pc = "idle"
    /\ \E i \in 1..Len(replies) :
          requests[i].run = 0 /\ requests[i].stage = 3
          /\ replies[i].outcome = "ok"
    /\ \E r \in 1..Len(runLog) : runLog[r].status = "returned"

\* number of replies with the given outcome
CountReplies(o) == Cardinality({i \in 1..Len(replies) : replies[i].outcome = o})

\* C19: the conversation is never reset. messages holds the system message,
\* two entries per completed stage call, and one per stage call that raised
\* or is in flight: 1 + 2n after n completed calls and no other, 11 after one
\* full optimize_resume on a fresh optimizer; and the stage-1 request of a
\* later optimize_resume is everything the run before it sent and received,
\* followed by the new user prompt
C19_NeverReset ==
    /\ Len(messages) = 1 + 2 * CountReplies("ok") + CountReplies("error")
                         + (IF pc = "inflight" THEN 1 ELSE 0)
    /\ (pc = "idle" /\ CountReplies("error") = 0) =>
          Len(messages) = 1 + 2 * ncalls
    /\ (pc = "idle" /\ ops = 1 /\ Len(runLog) = 1
        /\ runLog[1].status = "returned") => Len(messages) = 11
    /\ \A i \in 1..Len(requests) :
          (requests[i].run >= 2 /\ requests[i].stage = 1) =>
             LET r == requests[i].run
                 m == requests[i].messages
             IN  /\ m[Len(m)] =
                       [role |-> "user",
                        content |-> StagePrompt(1, runLog[r].job_description,
                                                runLog[r].user_preferences,
                                                runLog[r].current_resume)]
                 /\ \A j \in RunRequestIdx(r - 1) :
                       /\ IsPrefix(requests[j].messages, SubSeq(m, 1, Len(m) - 1))
                       /\ replies[j].outcome = "ok" =>
                             IsPrefix(Append(requests[j].messages,
                                             [role |-> "assistant",
                                              content |->
                                                 replies[j].message.content]),
                                      SubSeq(m, 1, Len(m) - 1))

\* a second optimize_resume has sent its stage-1 request after a first one
\* that returned: the 11 messages of the first run and the new prompt
C19_Witness ==
    \E i \in 1..Len(requests) :
       /\ requests[i].run = 2
       /\ requests[i].stage = 1
       /\ runLog[1].status = "returned"
       /\ Len(requests[i].messages) = 12

----------------------------------------------------------------------------
\* Claims about chat_completion under retry (specification RetrySpec)

\* C5: a call of chat_completion makes between 1 and 5 attempts; only a
\* transient failure is followed by another attempt, and it is followed by
\* one whenever fewer than 5 attempts were made; the call returns the
\* response of its first successful attempt, which is its last attempt; and
\* after the 5th attempt the call has ended
C5_OneToFiveAttempts ==
    r_calls > 0 =>
       /\ r_attempt \in 1..5
       /\ Len(r_log) \in {r_attempt - 1, r_attempt}
       /\ \A i \in 1..(r_attempt - 1) : r_log[i] \in TransientErrors
       /\ (Len(r_log) \in 1..4 /\ r_log[Len(r_log)] \in TransientErrors) =>
             r_pc \in {"sleeping", "attempting"}
       /\ r_outcome = "returned" <=>
             (Len(r_log) >= 1 /\ r_log[Len(r_log)] = "ok")
       /\ r_outcome = "returned" =>
             r_result = ChatResponse(r_calls, Len(r_log))
       /\ Len(r_log) = 5 => r_pc = "idle" /\ r_outcome # "none"

\* a call returned the response of its 5th attempt
C5_Witness ==
    /\ r_outcome = "returned"
    /\ Len(r_log) = 5
    /\ r_result = ChatResponse(r_calls, 5)

\* C6: a call whose attempts all failed and which used up its attempts
\* raises LLMError
C6_ExhaustedRaisesLLMError ==
    (/\ r_outcome = "raised"
     /\ Len(r_log) = StopAfterAttempt
     /\ \A i \in 1..Len(r_log) : r_log[i] # "ok") => r_raised = "LLMError"

\* C20: a call sleeps at most 4 times, every wait is between 4 and 60
\* seconds and no wait is shorter than the one before it; the wait function
\* itself stays within 4..60 and never decreases, also for attempt numbers
\* beyond those a call reaches
C20_BoundedExponentialBackoff ==
    /\ Len(r_waits) <= 4
    /\ Len(r_waits) = (IF r_pc = "sleeping" THEN r_attempt
                       ELSE IF r_attempt = 0 THEN 0
                       ELSE IF r_pc = "attempting" THEN r_attempt - 1
                       ELSE Len(r_log) - 1)
    /\ \A i \in 1..Len(r_waits) : r_waits[i] >= 4 /\ r_waits[i] <= 60
    /\ \A i \in 1..(Len(r_waits) - 1) : r_waits[i] <= r_waits[i + 1]
    /\ \A n \in 1..WaitProbe :
          /\ WaitExponential(n) >= 4
          /\ WaitExponential(n) <= 60
          /\ WaitExponential(n) <= WaitExponential(n + 1)

\* a call has slept four times, the last wait longer than the first
C20_Witness ==
    /\ Len(r_waits) = 4
    /\ r_waits[1] < r_waits[4]
    /\ r_pc = "attempting"

----------------------------------------------------------------------------
\* Claims about ResumeParser (specification ParserSpec)

\* C9: a parse_resume call on an existing PDF of n pages has exactly one
\* request: a system message, then a user message whose content is one text
\* part followed by n image parts, the i-th the encoded rendering of page i;
\* a call that returned handed out the Resume parsed from that response
C9_OneRequestPagesInOrder ==
    \A c \in 1..Len(p_log) :
       LET f == fs[p_log[c].path]
           idx == {i \in 1..Len(p_requests) : p_requests[i].parse = c}
       IN  f.exists =>
              /\ Cardinality(idx) = 1
              /\ \A i \in idx :
                    LET m == p_requests[i].messages
                    IN  /\ Len(m) = 2
                        /\ m[1].role = "system"
                        /\ m[2].role = "user"
                        /\ Len(m[2].content) = 1 + Len(f.pages)
                        /\ m[2].content[1].type = "text"
                        /\ \A n \in 1..Len(f.pages) :
                              m[2].content[1 + n] =
                                 [type |-> "image_url",
                                  payload |-> <<"data:image/jpeg;base64",
                                                <<"image", f.pages[n], 300>>>>]
                        /\ p_log[c].status = "returned" =>
                              /\ p_log[c].result = p_replies[i].message.parsed
                              /\ p_log[c].result.schema = "Resume"

\* a two-page PDF with different pages has been parsed and returned
C9_Witness ==
    \E c \in 1..Len(p_log) :
       /\ p_log[c].status = "returned"
       /\ Len(fs[p_log[c].path].pages) = 2
       /\ fs[p_log[c].path].pages[1] # fs[p_log[c].path].pages[2]

\* C10: a parse_resume call on a path that does not exist raised
\* FileNotFoundError and has no request
C10_MissingFileNoRequest ==
    \A c \in 1..Len(p_log) :
       ~fs[p_log[c].path].exists =>
          /\ p_log[c].status = "raised"
          /\ p_log[c].error = "FileNotFoundError"
          /\ \A i \in 1..Len(p_requests) : p_requests[i].parse # c

\* a call on a missing path was made after a call that sent a request
C10_Witness ==
    /\ Len(p_log) = 2
    /\ ~fs[p_log[2].path].exists
    /\ Len(p_requests) = 1

----------------------------------------------------------------------------
\* Claims about PromptLoader (specification LoaderSpec)

\* C11: once an access of a name has loaded its template, every later access
\* of that name returns the same template object without a lookup in the
\* template environment; the cache holds exactly the names whose load
\* succeeded, so a failed load adds nothing
C11_LoadedOnceThenCached ==
    /\ \A i, j \in 1..Len(l_accesses) :
          (i < j /\ l_accesses[i].name = l_accesses[j].name
           /\ l_accesses[i].error = "none") =>
             /\ l_accesses[j].result = l_accesses[i].result
             /\ ~l_accesses[j].looked
             /\ l_accesses[j].error = "none"
    /\ \A n \in TemplateNames :
          l_templates[n] # NoTemplate <=>
             \E i \in 1..Len(l_accesses) :
                /\ l_accesses[i].name = n
                /\ l_accesses[i].error = "none"
                /\ l_accesses[i].result = l_templates[n]
    /\ Cardinality({i \in 1..Len(l_lookups) : l_lookups[i].found})
          = Cardinality({n \in TemplateNames : l_templates[n] # NoTemplate})

\* a name was loaded, then served from the cache, after another name's load
\* had failed
C11_Witness ==
    \E i, j, k \in 1..Len(l_accesses) :
       /\ i < j /\ j < k
       /\ l_accesses[i].error = "AttributeError"
       /\ l_accesses[j].name = l_accesses[k].name
       /\ l_accesses[j].looked /\ l_accesses[j].error = "none"
       /\ ~l_accesses[k].looked

----------------------------------------------------------------------------
\* Claims about IDLogger (specification IdLogSpec)

\* C13: no ID appears in more than one row of the log file
C13_NoIdLoggedTwice ==
    \A i, j \in 1..Len(d_disk) :
       (i < j /\ d_disk[i] # HeaderRow /\ d_disk[j] # HeaderRow) =>
          d_disk[i][3] # d_disk[j][3]

\* C14: a delete_all that returned normally has sent a delete request of the
\* matching kind for every row that was in the log, and has left the header
\* row alone in the file
C14_DeleteAllDeletesAndClears ==
    \A c \in 1..Len(d_history) :
       (d_history[c].op = "delete_all" /\ d_history[c].error = "none") =>
          /\ \A i \in 1..Len(d_history[c].before) :
                \E k \in 1..Len(d_history[c].deletes) :
                   d_history[c].deletes[k] =
                      [kind |-> d_history[c].before[i][2],
                       id |-> d_history[c].before[i][3]]
          /\ d_history[c].after = <<HeaderRow>>

\* C15: every retrieve_all returns one entry per row logged so far, in
\* logging order (the empty list when there is none)
C15_RetrieveAllReturnsRows ==
    \A c \in 1..Len(d_history) :
       d_history[c].op = "retrieve_all" =>
          /\ d_history[c].error = "none"
          /\ d_history[c].result =
                [i \in 1..Len(d_history[c].before) |->
                    [datetime |-> d_history[c].before[i][1],
                     type |-> d_history[c].before[i][2],
                     id |-> d_history[c].before[i][3]]]

----------------------------------------------------------------------------
\* Claims about OpenAIAssistant (specification AssistantSpec)

\* the ids in the data rows of a log file
LoggedIds(disk) == {DataRows(disk)[i][3] : i \in 1..Len(DataRows(disk))}

\* C16: when the constructor, create_or_load_thread or upload_file returns,
\* the id of the assistant, thread or file it created or loaded is in the
\* log file
C16_CreatedOrLoadedIsLogged ==
    (/\ a_last.op \in {"__init__", "create_or_load_thread", "upload_file"}
     /\ a_last.error = "none") =>
        /\ a_last.object # NoObject
        /\ a_last.object.id \in LoggedIds(a_last.disk)
        /\ a_assistant.id \in LoggedIds(d_disk)
        /\ a_thread # NoObject => a_thread.id \in LoggedIds(d_disk)
        /\ \A i \in 1..Len(a_files) : a_files[i].id \in LoggedIds(d_disk)

\* a constructed assistant with a thread has just uploaded its second file
C16_Witness ==
    /\ a_state = "ready"
    /\ a_thread # NoObject
    /\ a_last.op = "upload_file"
    /\ a_last.error = "none"
    /\ Len(a_files) = 2

\* C17: get_all_messages returns the thread's messages newest first, and
\* run_thread_with_polling returns the final element of that list
C17_NewestFirst ==
    (/\ a_last.op \in {"get_all_messages", "run_thread_with_polling"}
     /\ a_last.error = "none") =>
        /\ \A i, j \in 1..Len(a_last.list) :
              i < j => a_last.list[i].n > a_last.list[j].n
        /\ a_last.op = "run_thread_with_polling" =>
              a_last.last = a_last.list[Len(a_last.list)]

----------------------------------------------------------------------------
\* Claims about PDFGenerator (specification PdfSpec)

\* C18: once generate_pdf has created its temporary HTML file, the file no
\* longer exists when the call has returned or raised
C18_TempFileRemoved ==
    (g_last.outcome \in {"returned", "raised"} /\ g_last.temp # <<>>) =>
        g_last.temp \notin g_temp

====
